---- MODULE Spec2Model ----
(***************************************************************************)
(* A model of the blog application: src/app.py (routes, admin views, the   *)
(* login flow), src/models.py (Article, Comment, User and their storage    *)
(* constraints) and src/create_admin.py (the provisioning script).         *)
(*                                                                         *)
(* Strings are sequences of one-character strings.  The alphabet has one   *)
(* representative per character class that the code distinguishes:         *)
(*   "a", "b"  lowercase word characters (\w)                              *)
(*   "A"       an uppercase word character, lower() maps it to "a"         *)
(*   "-"       the hyphen                                                  *)
(*   " "       whitespace (\s)                                             *)
(*   "!"       a character that is neither \w, \s nor "-"                  *)
(* E-mail addresses and passwords are abbreviated to short strings over    *)
(* the same alphabet; None stands for Python's None / SQL NULL.            *)
(***************************************************************************)
EXTENDS Integers, Sequences, FiniteSets, TLC

VARIABLES
    users,      \* the user table: a set of User rows
    userSeq,    \* the last id the user table handed out
    session,    \* the user id held by the browser session, 0 for none
    articles,   \* the article table: a set of Article rows
    comments,   \* the comment table: a set of Comment rows
    clock,      \* datetime.utcnow(), in ticks
    request,    \* the request being answered
    resp,       \* the response to it
    listing,    \* the rows handed to the rendered template, in order
    form,       \* the Article object passed to on_model_change
    script      \* create_admin.py: where main() is

vars == <<users, userSeq, session, articles, comments, clock, request, resp,
          listing, form, script>>

\* Python's None in a string-valued field: a one-element sequence whose
\* element is no character, so that it differs from every string.
None == <<"None">>

\* ------------------------------------------------------------------ bounds
MaxLen == 4
MaxUserSeq == 3
MaxArticles == 4
MaxSeedArticles == 2
MaxComments == 3
MaxClock == 2
NumSalts == 2

\* ----------------------------------------------------------------- strings
Chars == {"a", "A", "-", " ", "!"}

RECURSIVE StringsUpTo(_)
StringsUpTo(n) ==
    IF n = 0 THEN {<<>>}
    ELSE LET shorter == StringsUpTo(n - 1)
         IN  shorter \cup {Append(s, c) : s \in shorter, c \in Chars}

IsSpace(c) == c = " "
IsWord(c) == c \in {"a", "b", "A"}
IsSep(c) == c = "-" \/ IsSpace(c)

\* str.lower()
LowerChar(c) == IF c = "A" THEN "a" ELSE c
Lower(s) == [i \in 1..Len(s) |-> LowerChar(s[i])]

\* str.strip(): leading and trailing whitespace removed
RECURSIVE LStrip(_)
LStrip(s) == IF s # <<>> /\ IsSpace(Head(s)) THEN LStrip(Tail(s)) ELSE s

RECURSIVE RStrip(_)
RStrip(s) ==
    IF s # <<>> /\ IsSpace(s[Len(s)]) THEN RStrip(SubSeq(s, 1, Len(s) - 1)) ELSE s

Strip(s) == RStrip(LStrip(s))

\* A pattern that also removes hyphens: r"[^\w\s]".
RemoveNonWordSpace(s) == SelectSeq(s, LAMBDA c : IsWord(c) \/ IsSpace(c))

\* re.sub(r"[^\w\s-]", "", title): every character that is not a word
\* character, whitespace or a hyphen is removed
RemoveNonSlugChars(s) == SelectSeq(s, LAMBDA c : IsWord(c) \/ IsSpace(c) \/ c = "-")

RECURSIVE DropSeparators(_)
DropSeparators(s) ==
    IF s # <<>> /\ IsSep(Head(s)) THEN DropSeparators(Tail(s)) ELSE s

\* re.sub(r"[-\s]+", "-", s): every maximal run of hyphens and whitespace
\* becomes one hyphen
RECURSIVE CollapseSeparators(_)
CollapseSeparators(s) ==
    IF s = <<>> THEN <<>>
    ELSE IF IsSep(Head(s))
         THEN <<"-">> \o CollapseSeparators(DropSeparators(s))
         ELSE <<Head(s)>> \o CollapseSeparators(Tail(s))

\* The two substitutions of on_model_change, lines 87-88.
Slugify(title) == CollapseSeparators(Lower(Strip(RemoveNonSlugChars(title))))

\* Python truthiness of a str-or-None value: None and "" are falsy.
Truthy(s) == s # None /\ s # <<>>

\* ArticleAdmin.on_model_change: the model object is [title, slug].
on_model_change(model) ==
    IF ~Truthy(model.slug) /\ Truthy(model.title)
    THEN [model EXCEPT !.slug = Slugify(model.title)]
    ELSE model

\* ------------------------------------------------- slug derivation alone
Titles == StringsUpTo(MaxLen)
SlugInputs == {None, <<>>, <<"a">>, <<"a", "-", "a">>}

NoForm == [title |-> <<>>, slug |-> <<>>, given |-> <<>>, prev |-> <<>>, pass |-> 0]

\* The hook applied to the model object being saved; given is the slug the
\* operator supplied, prev the slug before the latest pass.
OnModelChange ==
    /\ form.pass < 2
    /\ LET m == on_model_change([title |-> form.title, slug |-> form.slug])
       IN  form' = [form EXCEPT !.slug = m.slug, !.prev = form.slug, !.pass = @ + 1]
    /\ UNCHANGED <<users, userSeq, session, articles, comments, clock, request,
                   resp, listing, script>>

\* ------------------------------------------------------------------ users
\* E-mail addresses and passwords, abbreviated: <<"a">> stands for the
\* script's "admin@example.com" and for its "NewStrongPass123!".
Emails == {<<"a">>, <<"b">>}
Passwords == {<<"a">>, <<"b">>}
AdminEmail == <<"a">>
AdminPassword == <<"a">>

EmailInputs == Emails \cup {<<" ">>, <<" ", "a", " ">>}
PasswordInputs == Passwords \cup {<<>>}

\* werkzeug's salted hash: a fresh random salt per call; the digest is an
\* injective function of (salt, password), kept as the pair itself.
Salts == 1..NumSalts
generate_password_hash(pw, salt) == [salt |-> salt, digest |-> pw]
\* A password_hash column value that is no hash of anything (the admin
\* User form takes the column as free text).
InvalidHash == [salt |-> 0, digest |-> <<>>]
check_password_hash(h, pw) == h.salt \in Salts /\ h = generate_password_hash(pw, h.salt)

HashInputs == {generate_password_hash(pw, 1) : pw \in Passwords} \cup {InvalidHash}

\* User.set_password / User.check_password
set_password(u, pw, salt) == [u EXCEPT !.password_hash = generate_password_hash(pw, salt)]
check_password(u, pw) == check_password_hash(u.password_hash, pw)

\* User.query.filter_by(email=...): the rows with that e-mail (at most one,
\* email is unique).
UsersByEmail(email) == {u \in users : u.email = email}

\* The storage constraints of the user table: unique id, unique email.
UserTableOk(t) ==
    \A u, v \in t : (u.id = v.id \/ u.email = v.email) => u = v

\* ---------------------------------------------------------------- session
\* session holds the logged-in user's id, 0 when it holds none.
\* load_user: User.query.get(int(user_id)), no row gives the anonymous user.
load_user(user_id) == {u \in users : u.id = user_id}
current_user == IF session = 0 THEN {} ELSE load_user(session)

\* User.is_authenticated is True; the anonymous user's is False.
is_authenticated == current_user # {}

\* SecureModelView.is_accessible
is_accessible == is_authenticated /\ \A u \in current_user : u.is_admin

\* -------------------------------------------------------------- responses
NoFlash == ""
Redirect(op, endpoint, flash) ==
    [op |-> op, kind |-> "redirect", target |-> endpoint, code |-> 302,
     error |-> "", flash |-> flash]
Render(op, template, code, error) ==
    [op |-> op, kind |-> "render", target |-> template, code |-> code,
     error |-> error, flash |-> NoFlash]

NoResponse == Render("none", "", 0, "")

\* SecureModelView.inaccessible_callback
inaccessible_callback(op) == Redirect(op, "login", NoFlash)

\* login_manager.unauthorized() with login_view = "login"
Unauthorized(op) == Redirect(op, "login", "Please log in to access this page.")

\* CSRFProtect(app): a POST outside the exempt admin blueprint without a
\* valid token is answered 400 before the view runs.
CsrfRejected(op) == Render(op, "400", 400, "The CSRF token is missing.")

Methods == {"GET", "POST"}

\* flask.request: the matched endpoint, the method, whether the CSRF token
\* validates, and the <slug> of the URL (empty for a route without one).
Request(endpoint, method, csrf_ok, slug) ==
    [endpoint |-> endpoint, method |-> method, csrf_ok |-> csrf_ok, slug |-> slug]
Get(endpoint) == Request(endpoint, "GET", TRUE, <<>>)
Post(endpoint) == Request(endpoint, "POST", TRUE, <<>>)

\* ------------------------------------------------------------ auth routes
\* LoginForm.validate_on_submit(): a POST whose two DataRequired fields
\* hold something other than whitespace.
validate_on_submit(method, email, password) ==
    method = "POST" /\ Strip(email) # <<>> /\ Strip(password) # <<>>

InvalidCredentials == Render("login", "admin/login.html", 200, "Invalid credentials")

\* /admin/login
login(method, csrf_ok, email, password) ==
    /\ request' = Request("login", method, csrf_ok, <<>>)
    /\ IF method = "POST" /\ ~csrf_ok
       THEN /\ resp' = CsrfRejected("login")
            /\ session' = session
       ELSE IF is_authenticated
       THEN /\ resp' = Redirect("login", "admin.index", NoFlash)
            /\ session' = session
       ELSE IF validate_on_submit(method, email, password)
       THEN LET found == UsersByEmail(Strip(email))
            IN  IF \E u \in found : check_password(u, password)
                THEN \E u \in found :
                        /\ session' = u.id
                        /\ resp' = Redirect("login", "admin.index", NoFlash)
                ELSE /\ session' = session
                     /\ resp' = InvalidCredentials
       ELSE /\ resp' = Render("login", "admin/login.html", 200, "")
            /\ session' = session
    /\ UNCHANGED <<users, userSeq, articles, comments, clock, listing, form, script>>

\* A logout that leaves the user id in the session.
KeepUserId == session

\* logout_user(): the user id is popped from the session
logout_user == 0

LoggedOut == Redirect("logout", "login", "You have been logged out successfully.")

\* /admin/logout, behind @login_required
logout ==
    /\ request' = Get("logout")
    /\ IF ~is_authenticated
       THEN /\ resp' = Unauthorized("logout")
            /\ session' = session
       ELSE /\ session' = logout_user
            /\ resp' = LoggedOut
    /\ UNCHANGED <<users, userSeq, articles, comments, clock, listing, form, script>>

\* ------------------------------------------------------------ admin panel
\* Admin(app, ..., url="/admin") is given no index_view: the dashboard is
\* the framework's default index view, which overrides neither
\* is_accessible nor inaccessible_callback and is open to every caller.
AdminIndexResponse == Render("admin.index", "admin/index.html", 200, "")

AdminIndex ==
    /\ request' = Get("admin.index")
    /\ resp' = AdminIndexResponse
    /\ UNCHANGED <<users, userSeq, session, articles, comments, clock, listing,
                   form, script>>

\* The three record-management views registered at lines 97-99.
ModelViews == {"article", "comment", "user"}

\* What a gated view answers to its list request; the response is named by
\* the view's endpoint.
ModelViewResponse(view) ==
    IF is_accessible
    THEN Render(view, "admin/model/list.html", 200, "")
    ELSE inaccessible_callback(view)

ModelViewList(view) ==
    /\ request' = Get(view)
    /\ resp' = ModelViewResponse(view)
    /\ UNCHANGED <<users, userSeq, session, articles, comments, clock, listing,
                   form, script>>

\* The User view's create form; a commit that breaks the unique email is
\* rolled back and the form shown again.
UserCreate(email, hash, is_admin) ==
    /\ userSeq < MaxUserSeq
    /\ request' = Post("user.create_view")
    /\ IF ~is_accessible
       THEN /\ resp' = inaccessible_callback("user.create_view")
            /\ UNCHANGED <<users, userSeq>>
       ELSE LET u == [id |-> userSeq + 1, email |-> email, password_hash |-> hash,
                      is_admin |-> is_admin]
            IN  IF UserTableOk(users \cup {u})
                THEN /\ users' = users \cup {u}
                     /\ userSeq' = userSeq + 1
                     /\ resp' = Redirect("user.create_view", "user.index_view", "Record was successfully created.")
                ELSE /\ resp' = Render("user.create_view", "admin/model/create.html", 200, "Failed to create record.")
                     /\ UNCHANGED <<users, userSeq>>
    /\ UNCHANGED <<session, articles, comments, clock, listing, form, script>>

UserEdit(id, email, hash, is_admin) ==
    /\ request' = Post("user.edit_view")
    /\ IF ~is_accessible
       THEN /\ resp' = inaccessible_callback("user.edit_view")
            /\ users' = users
       ELSE IF load_user(id) = {}
       THEN /\ resp' = Redirect("user.edit_view", "user.index_view", "Record does not exist.")
            /\ users' = users
       ELSE LET u == [id |-> id, email |-> email, password_hash |-> hash,
                      is_admin |-> is_admin]
                t == (users \ load_user(id)) \cup {u}
            IN  IF UserTableOk(t)
                THEN /\ users' = t
                     /\ resp' = Redirect("user.edit_view", "user.index_view", "Record was successfully saved.")
                ELSE /\ resp' = Render("user.edit_view", "admin/model/edit.html", 200, "Failed to update record.")
                     /\ users' = users
    /\ UNCHANGED <<userSeq, session, articles, comments, clock, listing, form, script>>

UserDelete(id) ==
    /\ request' = Post("user.delete_view")
    /\ IF ~is_accessible
       THEN /\ resp' = inaccessible_callback("user.delete_view")
            /\ users' = users
       ELSE IF load_user(id) = {}
       THEN /\ resp' = Redirect("user.delete_view", "user.index_view", "Record does not exist.")
            /\ users' = users
       ELSE /\ users' = users \ load_user(id)
            /\ resp' = Redirect("user.delete_view", "user.index_view", "Record was successfully deleted.")
    /\ UNCHANGED <<userSeq, session, articles, comments, clock, listing, form, script>>

\* ------------------------------------------ authentication and the gate
\* The user table holds the provisioned administrator; nobody is logged in.
SeedAdmin ==
    [id |-> 1, email |-> AdminEmail,
     password_hash |-> generate_password_hash(AdminPassword, 1), is_admin |-> TRUE]

Init ==
    /\ users = {SeedAdmin}
    /\ userSeq = 1
    /\ session = 0
    /\ articles = {}
    /\ comments = {}
    /\ clock = 0
    /\ request = Get("none")
    /\ resp = NoResponse
    /\ listing = <<>>
    /\ form = NoForm
    /\ script = "idle"

Next ==
    \/ \E method \in Methods, csrf_ok \in BOOLEAN, email \in EmailInputs,
          password \in PasswordInputs : login(method, csrf_ok, email, password)
    \/ logout
    \/ AdminIndex
    \/ \E view \in ModelViews : ModelViewList(view)
    \/ \E email \in Emails, hash \in HashInputs, is_admin \in BOOLEAN :
          UserCreate(email, hash, is_admin)
    \/ \E id \in 1..MaxUserSeq, email \in Emails, hash \in HashInputs,
          is_admin \in BOOLEAN : UserEdit(id, email, hash, is_admin)
    \/ \E id \in 1..MaxUserSeq : UserDelete(id)

Spec == Init /\ [][Next]_vars

\* ---------------------------------------------------------- public routes
Min(a, b) == IF a < b THEN a ELSE b

\* A lookup that falls back to any article when the slug matches none.
AnyArticleFor(slug) ==
    IF \E a \in articles : a.slug = slug
    THEN {a \in articles : a.slug = slug}
    ELSE articles

\* Article.query.filter_by(slug=slug): at most one row, slug is unique.
ArticleBySlug(slug) == {a \in articles : a.slug = slug}

\* Comment.query.filter_by(article_id=...)
CommentsOf(article_id) == {c \in comments : c.article_id = article_id}

\* order_by(Comment.created_at.desc()).all(): every arrangement of the rows
\* in which created_at never increases; rows with equal created_at come in
\* whatever order the database returns them.
OrderedByCreatedAtDesc(rows) ==
    {s \in [1..Cardinality(rows) -> rows] :
        /\ \A i, j \in DOMAIN s : i # j => s[i] # s[j]
        /\ \A i, j \in DOMAIN s : i < j => s[i].created_at >= s[j].created_at}

\* The errorhandler(404) page.
page_not_found(op) == Render(op, "404.html", 404, "")

\* request.form[key] on a missing key: werkzeug's BadRequestKeyError.
BadRequestKey(op) == Render(op, "400", 400, "Bad Request")

\* A form field the request does not carry.
Missing == <<"Missing">>
Names == {<<"a">>}
Contents == {<<"a">>}

\* /articles/<slug>
article_detail(method, csrf_ok, slug, name, content) ==
    /\ request' = Request("article_detail", method, csrf_ok, slug)
    /\ IF method = "POST" /\ ~csrf_ok
       THEN /\ resp' = CsrfRejected("article_detail")
            /\ comments' = comments
            /\ listing' = <<>>
       ELSE IF ArticleBySlug(slug) = {}
       THEN /\ resp' = page_not_found("article_detail")
            /\ comments' = comments
            /\ listing' = <<>>
       ELSE \E article \in ArticleBySlug(slug) :
              IF method = "POST"
              THEN IF name = Missing \/ content = Missing
                   THEN /\ resp' = BadRequestKey("article_detail")
                        /\ comments' = comments
                        /\ listing' = <<>>
                   ELSE /\ Cardinality(comments) < MaxComments
                        /\ comments' = comments \cup
                             {[id |-> Cardinality(comments) + 1, article_id |-> article.id,
                               name |-> name, content |-> content, created_at |-> clock]}
                        /\ resp' = Redirect("article_detail", "article_detail", NoFlash)
                        /\ listing' = <<>>
              ELSE /\ \E rows \in OrderedByCreatedAtDesc(CommentsOf(article.id)) :
                        listing' = rows
                   /\ resp' = Render("article_detail", "article_detail.html", 200, "")
                   /\ UNCHANGED comments
    /\ UNCHANGED <<users, userSeq, session, articles, clock, form, script>>

\* Time passes between two readings of datetime.utcnow().
Tick ==
    /\ clock < MaxClock
    /\ clock' = clock + 1
    /\ UNCHANGED <<users, userSeq, session, articles, comments, request, resp,
                   listing, form, script>>

\* The number of articles every request features.
AlwaysThree(n) == 3

\* min(3, len(all_articles))
FeaturedCount(n) == Min(3, n)

\* random.sample(population, k): any k distinct members, in any order;
\* ValueError when k exceeds the population.
random_sample(population, k) ==
    {s \in [1..k -> population] : \A i, j \in 1..k : i # j => s[i] # s[j]}

\* /
index ==
    /\ request' = Get("index")
    /\ LET k == FeaturedCount(Cardinality(articles))
       IN  IF k > Cardinality(articles)
           THEN /\ resp' = Render("index", "500.html", 500, "ValueError")
                /\ listing' = <<>>
           ELSE /\ \E featured_articles \in random_sample(articles, k) :
                     listing' = featured_articles
                /\ resp' = Render("index", "index.html", 200, "")
    /\ UNCHANGED <<users, userSeq, session, articles, comments, clock, form, script>>

\* Article tables of 0..MaxSeedArticles rows with distinct slugs: row i has
\* the slug "a" repeated i times.
SeedSlug(i) == [k \in 1..i |-> "a"]
SeedArticles(n) == {[id |-> i, title |-> SeedSlug(i), slug |-> SeedSlug(i)] : i \in 1..n}
SlugRequests == {SeedSlug(i) : i \in 1..MaxSeedArticles} \cup {<<"b">>}

InitPublic ==
    /\ users = {SeedAdmin}
    /\ userSeq = 1
    /\ session = 0
    /\ articles \in {SeedArticles(n) : n \in 0..MaxSeedArticles}
    /\ comments = {}
    /\ clock = 0
    /\ request = Get("none")
    /\ resp = NoResponse
    /\ listing = <<>>
    /\ form = NoForm
    /\ script = "idle"

NextPublic ==
    \/ \E method \in Methods, csrf_ok \in BOOLEAN, slug \in SlugRequests,
          name \in Names \cup {Missing}, content \in Contents \cup {Missing} :
          article_detail(method, csrf_ok, slug, name, content)
    \/ Tick

SpecPublic == InitPublic /\ [][NextPublic]_vars

\* ------------------------------------------------- admin: the Article view
\* The storage constraints of the article table (models.py): title and slug
\* NOT NULL, slug unique, id the primary key.  The empty string is not NULL.
ArticleTableOk(t) ==
    /\ \A a \in t : a.slug # None /\ a.title # None
    /\ \A a, b \in t : (a.id = b.id \/ a.slug = b.slug) => a = b

TitleInputs == {<<"a">>, <<"A", " ", "a">>, <<"!">>}
SlugFormInputs == {None, <<>>, <<"b">>}

\* The Article view's create form: on_model_change runs before the commit;
\* a commit that breaks a constraint is rolled back and the form shown again.
ArticleCreate(title, slug) ==
    /\ Cardinality(articles) < MaxArticles
    /\ request' = Post("article.create_view")
    /\ IF ~is_accessible
       THEN /\ resp' = inaccessible_callback("article.create_view")
            /\ articles' = articles
       ELSE LET m == on_model_change([title |-> title, slug |-> slug])
                row == [id |-> Cardinality(articles) + 1, title |-> m.title, slug |-> m.slug]
            IN  IF ArticleTableOk(articles \cup {row})
                THEN /\ articles' = articles \cup {row}
                     /\ resp' = Redirect("article.create_view", "article.index_view",
                                         "Record was successfully created.")
                ELSE /\ resp' = Render("article.create_view", "admin/model/create.html",
                                       200, "Failed to create record.")
                     /\ articles' = articles
    /\ listing' = <<>>
    /\ UNCHANGED <<users, userSeq, session, comments, clock, form, script>>

\* The Article view's edit form.
ArticleEdit(id, title, slug) ==
    /\ request' = Post("article.edit_view")
    /\ IF ~is_accessible
       THEN /\ resp' = inaccessible_callback("article.edit_view")
            /\ articles' = articles
       ELSE IF {a \in articles : a.id = id} = {}
       THEN /\ resp' = Redirect("article.edit_view", "article.index_view",
                                "Record does not exist.")
            /\ articles' = articles
       ELSE LET m == on_model_change([title |-> title, slug |-> slug])
                row == [id |-> id, title |-> m.title, slug |-> m.slug]
                t == {a \in articles : a.id # id} \cup {row}
            IN  IF ArticleTableOk(t)
                THEN /\ articles' = t
                     /\ resp' = Redirect("article.edit_view", "article.index_view",
                                         "Record was successfully saved.")
                ELSE /\ resp' = Render("article.edit_view", "admin/model/edit.html",
                                       200, "Failed to update record.")
                     /\ articles' = articles
    /\ listing' = <<>>
    /\ UNCHANGED <<users, userSeq, session, comments, clock, form, script>>

\* The administrator logs in, saves articles, and the home page is read.
NextArticles ==
    \/ \E method \in Methods, csrf_ok \in BOOLEAN, email \in EmailInputs,
          password \in PasswordInputs : login(method, csrf_ok, email, password)
    \/ \E title \in TitleInputs, slug \in SlugFormInputs : ArticleCreate(title, slug)
    \/ \E id \in 1..MaxArticles, title \in TitleInputs, slug \in SlugFormInputs :
          ArticleEdit(id, title, slug)
    \/ index

SpecArticles == Init /\ [][NextArticles]_vars

\* --------------------------------------------- the slug hook on its own
InitSlug ==
    /\ users = {SeedAdmin}
    /\ userSeq = 1
    /\ session = 0
    /\ articles = {}
    /\ comments = {}
    /\ clock = 0
    /\ request = Get("none")
    /\ resp = NoResponse
    /\ listing = <<>>
    /\ form \in {[title |-> t, slug |-> g, given |-> g, prev |-> g, pass |-> 0] :
                    t \in Titles, g \in SlugInputs}
    /\ script = "idle"

NextSlug == OnModelChange

SpecSlug == InitSlug /\ [][NextSlug]_vars

\* ------------------------------------------------------ create_admin.py
\* The attributes of class User (models.py): the four columns, the two
\* password helpers and the flask-login interface.
UserAttributes ==
    {"id", "email", "password_hash", "is_admin", "set_password", "check_password",
     "is_authenticated", "is_active", "is_anonymous", "get_id"}

\* The keyword arguments main() passes to User(...).
NewUserKwargs == {"email", "name", "is_admin"}

\* The declarative constructor: TypeError for a keyword that names no
\* attribute of the class.
ConstructorAccepts(kwargs) == kwargs \subseteq UserAttributes

\* main(): look the known e-mail up, create the user or promote it, commit.
\* An exception leaves main() before db.session.commit().
main(salt) ==
    /\ LET user == UsersByEmail(AdminEmail)
       IN  IF user = {}
           THEN IF ConstructorAccepts(NewUserKwargs)
                THEN /\ users' = users \cup
                          {set_password([id |-> userSeq + 1, email |-> AdminEmail,
                                         password_hash |-> InvalidHash, is_admin |-> TRUE],
                                        AdminPassword, salt)}
                     /\ userSeq' = userSeq + 1
                     /\ script' = "ready"
                ELSE /\ script' = "TypeError"
                     /\ UNCHANGED <<users, userSeq>>
           ELSE /\ users' = (users \ user) \cup
                     {set_password([u EXCEPT !.is_admin = TRUE], AdminPassword, salt) :
                         u \in user}
                /\ userSeq' = userSeq
                /\ script' = "ready"
    /\ UNCHANGED <<session, articles, comments, clock, request, resp, listing, form>>

\* Any user table the script may find: at most one row per e-mail.
StoredHashes ==
    {generate_password_hash(pw, salt) : pw \in Passwords, salt \in Salts} \cup {InvalidHash}
StoredUsers(id, email) ==
    {[id |-> id, email |-> email, password_hash |-> h, is_admin |-> b] :
        h \in StoredHashes, b \in BOOLEAN}
UserTables ==
    {a \cup b : a \in {{}} \cup {{u} : u \in StoredUsers(1, <<"a">>)},
                b \in {{}} \cup {{u} : u \in StoredUsers(2, <<"b">>)}}

InitProvision ==
    /\ users \in UserTables
    /\ userSeq = 2
    /\ session = 0
    /\ articles = {}
    /\ comments = {}
    /\ clock = 0
    /\ request = Get("none")
    /\ resp = NoResponse
    /\ listing = <<>>
    /\ form = NoForm
    /\ script = "idle"

NextProvision == \E salt \in Salts : main(salt)

SpecProvision == InitProvision /\ [][NextProvision]_vars

\* ================================================================= claims

\* The endpoints served under /admin/ other than the login form itself.
AdminEndpoints ==
    {"admin.index", "logout", "user.create_view", "user.edit_view", "user.delete_view",
     "article.create_view", "article.edit_view"} \cup ModelViews

\* C1: every request to a resource under /admin/ made without an
\* authenticated administrator is answered with a redirect to the login
\* form and does nothing else: it changes neither the session nor a table.
C1_AdminGated ==
    [][(request'.endpoint \in AdminEndpoints /\ ~is_accessible)
          => /\ resp'.kind = "redirect"
             /\ resp'.target = "login"
             /\ session' = session
             /\ users' = users
             /\ articles' = articles]_vars

\* C2: every persisted Article has a non-empty slug and no two persisted
\* Articles share a slug.
C2_SlugsUniqueNonEmpty ==
    /\ \A a \in articles : a.slug # None /\ a.slug # <<>>
    /\ \A a, b \in articles : a.slug = b.slug => a = b

\* C3: a step that puts a user id into the session puts an administrator's:
\* login never establishes a principal whose is_admin is false.
C3_LoginOnlyAdmins ==
    [][(session' # session /\ session' # 0)
          => \A u \in users : u.id = session' => u.is_admin]_vars

\* C4: after a login answered "Invalid credentials" the session is still
\* anonymous and a request to /admin is redirected to the login form.
C4_FailedLoginStaysOut ==
    resp = InvalidCredentials
        => /\ ~is_authenticated
           /\ AdminIndexResponse.kind = "redirect"
           /\ AdminIndexResponse.target = "login"

\* C5: the comments on a detail page are in strictly descending created_at
\* order and the most recently submitted comment of the article is first.
C5_NewestCommentFirst ==
    (request.endpoint = "article_detail" /\ resp.kind = "render" /\ resp.code = 200)
        => /\ \A i, j \in DOMAIN listing :
                 i < j => listing[i].created_at > listing[j].created_at
           /\ \A i \in DOMAIN listing : listing[1].id >= listing[i].id

\* The slug of the request matches no persisted Article.
UnknownSlug(slug) == \A a \in articles : a.slug # slug

\* C6 as stated: every GET or POST to /articles/<slug> for a slug that
\* matches no Article is answered with the 404 page and creates no Comment.
C6_UnknownSlugNotFound ==
    [][(request'.endpoint = "article_detail" /\ UnknownSlug(request'.slug))
          => /\ resp' = Render("article_detail", "404.html", 404, "")
             /\ comments' = comments]_vars

\* C6, amended: for a slug that matches no Article a GET, and a POST whose
\* CSRF token validates, are answered with the 404 page; a POST without a
\* valid token is answered 400 before the lookup; none of them is answered
\* with a server error and none creates a Comment.
C6_UnknownSlugNotFoundOrRejected ==
    [][(request'.endpoint = "article_detail" /\ UnknownSlug(request'.slug))
          => /\ comments' = comments
             /\ resp'.code < 500
             /\ IF request'.method = "POST" /\ ~request'.csrf_ok
                THEN resp'.code = 400
                ELSE resp' = Render("article_detail", "404.html", 404, "")]_vars

\* A POST with a valid token for an unknown slug was answered 404 while the
\* tables hold articles and comments.
C6_Witness ==
    /\ request.endpoint = "article_detail"
    /\ request.method = "POST"
    /\ request.csrf_ok
    /\ UnknownSlug(request.slug)
    /\ resp.code = 404
    /\ articles # {}
    /\ comments # {}

\* C7: once the provisioning script has run, exactly one User has the known
\* e-mail, and that User is an administrator whose hash verifies the known
\* password.
C7_ProvisionedAdmin ==
    script # "idle"
        => /\ Cardinality({u \in users : u.email = AdminEmail}) = 1
           /\ \A u \in users :
                 u.email = AdminEmail => u.is_admin /\ check_password(u, AdminPassword)

\* C8: logout always answers with a redirect to the login form; it empties
\* the session of an authenticated caller and leaves any other session as
\* it is.  While the session is empty every gated view redirects to the
\* login form, and only a successful login fills the session again.
C8_Logout ==
    /\ [][request'.endpoint = "logout"
             => /\ resp'.kind = "redirect"
                /\ resp'.target = "login"
                /\ session' = IF is_authenticated THEN 0 ELSE session]_vars
    /\ [](session = 0
             => \A view \in ModelViews :
                   ModelViewResponse(view) = Redirect(view, "login", NoFlash))
    /\ [][(session = 0 /\ session' # 0)
             => /\ request'.endpoint = "login"
                /\ resp' = Redirect("login", "admin.index", NoFlash)]_vars

\* An authenticated caller has just logged out and the gated views redirect.
C8_Witness ==
    /\ resp = LoggedOut
    /\ session = 0
    /\ \A view \in ModelViews : ModelViewResponse(view).target = "login"

\* A valid slug: lowercase word characters separated by single hyphens.
IsSlug(s) ==
    /\ s # <<>>
    /\ \A i \in DOMAIN s : s[i] \in {"a", "b", "-"}
    /\ s[1] # "-" /\ s[Len(s)] # "-"
    /\ \A i \in 1..(Len(s) - 1) : ~(s[i] = "-" /\ s[i + 1] = "-")

\* C9: running the hook a second time leaves the slug of the first run; a
\* derived slug derives to itself; and a title that is already a valid slug
\* is its own slug.
C9_SlugIdempotent ==
    /\ form.pass = 2 => form.slug = form.prev
    /\ (form.pass >= 1 /\ form.given \in {None, <<>>} /\ form.title # <<>>)
          => /\ Slugify(form.slug) = form.slug
             /\ IsSlug(form.title) => form.slug = form.title

\* "A! a" with no slug given was saved twice and has the slug "a-a".
C9_Witness ==
    /\ form.pass = 2
    /\ form.given = None
    /\ form.title = <<"A", "!", " ", "a">>
    /\ form.slug = <<"a", "-", "a">>

\* C10: the home page features exactly min(3, number of articles) articles,
\* all different, all persisted; with fewer than 3 articles, all of them.
C10_FeaturedCount ==
    request.endpoint = "index"
        => /\ resp.code = 200
           /\ Len(listing) = Min(3, Cardinality(articles))
           /\ Len(listing) <= 3
           /\ \A i, j \in DOMAIN listing : i # j => listing[i] # listing[j]
           /\ \A i \in DOMAIN listing : listing[i] \in articles
           /\ Cardinality(articles) < 3 => {listing[i] : i \in DOMAIN listing} = articles

\* The home page was rendered with 3 of 4 persisted articles.
C10_Witness ==
    /\ request.endpoint = "index"
    /\ Cardinality(articles) = 4
    /\ Len(listing) = 3
====
